---- MODULE Spec2Model ----
(***************************************************************************)
(* Supervision of the Python backend process by the Tauri shell            *)
(* (src-tauri/src/lib.rs): port reclamation, executable resolution,        *)
(* start/replace of the tracked child, readiness probing, health check     *)
(* and the window-close shutdown handler.                                  *)
(***************************************************************************)
EXTENDS Integers, Sequences, FiniteSets, TLC

(***************************************************************************)
(* Bounds of the model.                                                    *)
(***************************************************************************)
\* number of start_python_backend invocations (the setup task and commands)
NumStarts == 2
\* number of CloseRequested events delivered to the window handler
MaxCloses == 2
\* number of check_backend_health invocations
MaxHealthChecks == 1
\* largest max_retries / script length tried on wait_for_backend_ready alone
MaxRetriesTried == 3
\* longest port-introspection output (pids or netstat lines) tried
MaxFound == 2
\* deepest current directory tried on the resolution alone (0 is the root)
MaxCwdDepth == 3

(***************************************************************************)
(* Program constants.                                                      *)
(***************************************************************************)
BackendPort == 8000
GraceMs == 500
StartMaxRetries == 30
StartDelayMs == 500
\* the character '\n' that separates the pids printed by lsof
NL == 10

Starts == 1 .. NumStarts
\* lock owners: nobody, a start invocation, or the window-event handler
Free == 0
Hook == NumStarts + 1
\* Option<Child>: None is 0, Some(child) is the child's index; the child
\* spawned by invocation s has index s
None == 0
Children == Starts
\* OS process ids: of the children, and of one foreign process
Pid(c) == 100 + c
ExtPid == Pid(0)

VARIABLES
    platform,      \* target_os the crate was built for: "unix" or "windows"
    process,       \* PythonBackend.process: None or the tracked child
    lock,          \* owner of the Mutex around PythonBackend.process
    pc,            \* position of each start_python_backend invocation
    existing,      \* existing_process of each invocation (what it took)
    startRes,      \* value returned by each invocation ("none" while running)
    reclaimRes,    \* what kill_process_on_port returned to each invocation
    probed,        \* whether the invocation issued a health request
    doneAtBegin,   \* invocations that had returned when this one began
    alive,         \* per child: spawned and neither killed nor reaped
    spawned,       \* per child: command.spawn() returned it
    killCalled,    \* per child: Child::kill was called on it
    killFailed,    \* per child: that kill returned Err
    waited,        \* per child: Child::wait returned for it
    hookPc,        \* position of the CloseRequested handler
    hookProc,      \* process taken by the handler
    closes,        \* CloseRequested events handled so far
    healthChecks,  \* check_backend_health invocations so far
    healthRet,     \* what check_backend_health returned last
    portIn,        \* kill_process_on_port run alone: the introspection outcome
    portOut,       \* ... and its result and trace
    waitIn,        \* wait_for_backend_ready run alone: max_retries and outcomes
    waitOut,       \* ... and its result and trace
    resolveIn,     \* the resolution of lines 124-150 run alone: the file system
    resolveOut     \* ... and the directory and interpreter chosen

vars == <<platform, process, lock, pc, existing, startRes,
          reclaimRes, probed, doneAtBegin, alive, spawned,
          killCalled, killFailed, waited, hookPc, hookProc, closes,
          healthChecks, healthRet, portIn, portOut, waitIn, waitOut,
          resolveIn, resolveOut>>

supervisorVars == <<process, lock, pc, existing, startRes,
          reclaimRes, probed, doneAtBegin, alive, spawned,
          killCalled, killFailed, waited, hookPc, hookProc, closes>>
healthVars == <<healthChecks, healthRet>>
portVars == <<portIn, portOut>>
waitVars == <<waitIn, waitOut>>
resolveVars == <<resolveIn, resolveOut>>

(***************************************************************************)
(* Sequence helpers.                                                       *)
(***************************************************************************)
RECURSIVE SeqsUpTo(_, _)
\* all sequences over S of length at most n
SeqsUpTo(S, n) ==
    IF n = 0 THEN {<<>>}
    ELSE LET shorter == SeqsUpTo(S, n - 1)
         IN  shorter \cup {Append(q, x) : q \in shorter, x \in S}

Range(q) == {q[i] : i \in 1 .. Len(q)}
NoDup(q) == \A i, j \in 1 .. Len(q) : i # j => q[i] # q[j]

RECURSIVE Ascending(_)
\* the elements of a finite set of integers, smallest first
Ascending(S) ==
    IF S = {} THEN <<>>
    ELSE LET m == CHOOSE x \in S : \A y \in S : x <= y
         IN  <<m>> \o Ascending(S \ {m})

(***************************************************************************)
(* kill_process_on_port (lib.rs 13-77).                                    *)
(*                                                                         *)
(* The output of lsof is a string; it is modelled as a sequence of tokens, *)
(* a token being the newline character NL or the decimal text of one pid   *)
(* (the pid's number).  The netstat table is a sequence of lines, a line   *)
(* being [port, listening, pid]: whether it contains ":<port>", whether it *)
(* contains "LISTENING", and its last whitespace-separated field.          *)
(* The trace of the function is the sequence of commands and sleeps it     *)
(* issues.                                                                 *)
(***************************************************************************)
IsSpace(tok) == tok = NL

RECURSIVE TrimStart(_)
TrimStart(str) ==
    IF str # <<>> /\ IsSpace(Head(str)) THEN TrimStart(Tail(str)) ELSE str

RECURSIVE TrimEnd(_)
TrimEnd(str) ==
    IF str # <<>> /\ IsSpace(str[Len(str)])
    THEN TrimEnd(SubSeq(str, 1, Len(str) - 1))
    ELSE str

\* str::trim
Trim(str) == TrimEnd(TrimStart(str))

RECURSIVE SplitFrom(_, _, _)
SplitFrom(str, sep, cur) ==
    IF str = <<>> THEN <<cur>>
    ELSE IF Head(str) = sep THEN <<cur>> \o SplitFrom(Tail(str), sep, <<>>)
    ELSE SplitFrom(Tail(str), sep, Append(cur, Head(str)))

\* str::split(sep).collect(): the pieces between separators, empty ones kept
Split(str, sep) == SplitFrom(str, sep, <<>>)

RECURSIVE JoinLines(_)
\* what lsof -t prints for the pids it found: one pid per line
JoinLines(pids) ==
    IF pids = <<>> THEN <<>>
    ELSE <<Head(pids), NL>> \o JoinLines(Tail(pids))

KillCmd(name, pid) == [op |-> name, arg |-> pid]
SleepStep(ms) == [op |-> "sleep", arg |-> <<ms>>]

RECURSIVE KillEachStopsOnFailure(_, _)
\* the loop left at the first terminate command that fails
KillEachStopsOnFailure(pids, fails) ==
    IF pids = <<>> THEN <<>>
    ELSE LET pid == Trim(Head(pids))
         IN  IF pid = <<>> THEN KillEachStopsOnFailure(Tail(pids), fails)
             ELSE <<KillCmd("kill -9", pid)>>
                  \o (IF pid[1] \in fails THEN <<>>
                      ELSE KillEachStopsOnFailure(Tail(pids), fails))

RECURSIVE KillEach(_, _)
\* the loop of lines 28-35; fails are the pids whose kill command fails, and
\* "let _ =" throws the outcome of each command away
\* the loop of lines 28-35 over the split pieces
KillEach(pids, fails) ==
    IF pids = <<>> THEN <<>>
    ELSE LET pid == Trim(Head(pids))
         IN  (IF pid # <<>> THEN <<KillCmd("kill -9", pid)>> ELSE <<>>)
             \o KillEach(Tail(pids), fails)

\* kill_process_on_port with the grace sleep moved out of the if
KillOnPortUnixAlwaysSleeps(port, q) ==
    IF q.spawn = "err" THEN [res |-> "Err", trace |-> <<>>]
    ELSE IF q.success /\ q.stdout # <<>>
    THEN [res |-> "Ok",
          trace |-> KillEach(Split(Trim(q.stdout), NL), q.fails) \o <<SleepStep(GraceMs)>>]
    ELSE [res |-> "Ok", trace |-> <<SleepStep(GraceMs)>>]

\* lines 16-41: q = [spawn, success, stdout] is what Command::output gave
KillOnPortUnix(port, q) ==
    IF q.spawn = "err" THEN [res |-> "Err", trace |-> <<>>]
    ELSE IF q.success /\ q.stdout # <<>>
    THEN LET pids == Split(Trim(q.stdout), NL)
         IN  [res |-> "Ok", trace |-> KillEach(pids, q.fails) \o <<SleepStep(GraceMs)>>]
    ELSE [res |-> "Ok", trace |-> <<>>]

RECURSIVE TaskkillEach(_, _, _)
\* the loop of lines 55-67; killed_pids is the HashSet of pids already killed,
\* fails are the pids whose taskkill fails (the outcome is thrown away)
TaskkillEach(lines, killed_pids, fails) ==
    IF lines = <<>> THEN [trace |-> <<>>, killed |-> killed_pids]
    ELSE LET line == Head(lines)
             hit == line.port /\ line.listening /\ line.pid \notin killed_pids
             rest == TaskkillEach(Tail(lines),
                        IF hit THEN killed_pids \cup {line.pid} ELSE killed_pids,
                        fails)
         IN  [trace |-> (IF hit THEN <<KillCmd("taskkill /F /PID", <<line.pid>>)>>
                         ELSE <<>>) \o rest.trace,
              killed |-> rest.killed]

\* lines 43-74: q = [spawn, success, lines] is what Command::output gave
KillOnPortWindows(port, q) ==
    IF q.spawn = "err" THEN [res |-> "Err", trace |-> <<>>]
    ELSE IF q.success
    THEN LET r == TaskkillEach(q.lines, {}, q.fails)
         IN  [res |-> "Ok",
              trace |-> r.trace \o
                  (IF r.killed # {} THEN <<SleepStep(GraceMs)>> ELSE <<>>)]
    ELSE [res |-> "Ok", trace |-> <<>>]

kill_process_on_port(os, port, q) ==
    IF os = "unix" THEN KillOnPortUnix(port, q) ELSE KillOnPortWindows(port, q)

\* the pids the trace sent a terminate to, and the number of sleeps in it
KilledPids(trace) ==
    {trace[i].arg[1] : i \in {j \in 1 .. Len(trace) : trace[j].op # "sleep"}}
Sleeps(trace) == {i \in 1 .. Len(trace) : trace[i].op = "sleep"}
Kills(trace) == {i \in 1 .. Len(trace) : trace[i].op # "sleep"}

(***************************************************************************)
(* Outcomes of the port introspection command.  lsof -t prints the pids it *)
(* found, one per line, and exits 0; it prints nothing and exits 1 when no *)
(* process uses the port.  netstat -ano prints the connection table.       *)
(***************************************************************************)
SpawnErr ==
    [spawn |-> "err", success |-> FALSE, stdout |-> <<>>, lines |-> <<>>,
     fails |-> {}]
LsofFound(pids) ==
    [spawn |-> "ok", success |-> pids # <<>>, stdout |-> JoinLines(pids),
     lines |-> <<>>, fails |-> {}]
NetstatOut(ok, lines) ==
    [spawn |-> "ok", success |-> ok, stdout |-> <<>>, lines |-> lines,
     fails |-> {}]
NetstatLine(pid) == [port |-> TRUE, listening |-> TRUE, pid |-> pid]

\* the pids a query outcome reports as bound to the port
FoundPids(os, q) ==
    IF q.spawn = "err" THEN {}
    ELSE IF os = "unix" THEN {tok \in Range(q.stdout) : tok # NL}
    ELSE IF ~q.success THEN {}
    ELSE {q.lines[i].pid : i \in {j \in 1 .. Len(q.lines) :
                                    q.lines[j].port /\ q.lines[j].listening}}

\* outcomes the introspection can have when the processes in S use the port
QueriesFor(os, S) ==
    {SpawnErr} \cup
    IF os = "unix" THEN {LsofFound(Ascending(T)) : T \in SUBSET S}
    ELSE {NetstatOut(FALSE, <<>>)} \cup
         {NetstatOut(TRUE, [i \in 1 .. Cardinality(T) |->
                               NetstatLine(Ascending(T)[i])]) : T \in SUBSET S}

(***************************************************************************)
(* Executable resolution (lib.rs 124-150).  fs says what the file system   *)
(* answers: whether current_dir() succeeds, whether the current directory  *)
(* has a parent, and which of the four candidate paths exist.              *)
(***************************************************************************)
FsStates ==
    {fs \in [cwdOk : BOOLEAN, hasParent : BOOLEAN, dirCwd : BOOLEAN,
             dirParent : BOOLEAN, venvCwd : BOOLEAN, venvParent : BOOLEAN] :
        /\ ~fs.cwdOk => ~fs.hasParent /\ ~fs.dirCwd /\ ~fs.venvCwd
        /\ ~fs.hasParent => ~fs.dirParent /\ ~fs.venvParent}

NoFs == [cwdOk |-> FALSE, hasParent |-> FALSE, dirCwd |-> FALSE,
         dirParent |-> FALSE, venvCwd |-> FALSE, venvParent |-> FALSE]

\* the resolution without the existence test of lines 139-141
ResolveDirUnchecked(fs) ==
    IF ~fs.cwdOk THEN [err |-> "CurrentDirError", dir |-> "none"]
    ELSE IF fs.dirCwd THEN [err |-> "none", dir |-> "cwd/python-backend"]
    ELSE IF ~fs.hasParent THEN [err |-> "NoParent", dir |-> "none"]
    ELSE [err |-> "none", dir |-> "parent/python-backend"]

\* lines 125-141: python_backend_dir, or the error returned
ResolveDir(fs) ==
    IF ~fs.cwdOk THEN [err |-> "CurrentDirError", dir |-> "none"]
    ELSE IF fs.dirCwd THEN [err |-> "none", dir |-> "cwd/python-backend"]
    ELSE IF ~fs.hasParent THEN [err |-> "NoParent", dir |-> "none"]
    ELSE IF ~fs.dirParent THEN [err |-> "DirectoryNotFound", dir |-> "none"]
    ELSE [err |-> "none", dir |-> "parent/python-backend"]

\* the interpreter looked up under the parent directory first
ResolveExeParentFirst(fs) ==
    IF fs.hasParent /\ fs.venvParent THEN "parent/.venv/bin/python"
    ELSE IF fs.venvCwd THEN "cwd/.venv/bin/python"
    ELSE "python3"

\* lines 144-150: python_exe
ResolveExe(fs) ==
    IF fs.venvCwd THEN "cwd/.venv/bin/python"
    ELSE IF fs.hasParent /\ fs.venvParent THEN "parent/.venv/bin/python"
    ELSE "python3"

NoPlan == [err |-> "none", dir |-> "none", exe |-> "none"]

\* the whole resolution: the error returned, or the directory and interpreter
Resolve(fs) ==
    LET d == ResolveDir(fs)
    IN  [err |-> d.err, dir |-> d.dir,
         exe |-> IF d.err = "none" THEN ResolveExe(fs) ELSE "none"]

(***************************************************************************)
(* Health requests.  An outcome of reqwest::get is a response with a       *)
(* status code or a transport error.                                       *)
(***************************************************************************)
Resp(status) == [kind |-> "resp", status |-> status]
TransportErr == [kind |-> "err", status |-> 0]
Outcomes == {Resp(199), Resp(200), Resp(299), Resp(300), Resp(503), TransportErr}

\* StatusCode::is_success
IsSuccess(status) == status >= 200 /\ status <= 299

\* check_backend_health with the transport error passed on to the caller
CheckHealthPropagatesError(o) ==
    IF o.kind = "resp" THEN [tag |-> "Ok", value |-> IsSuccess(o.status)]
    ELSE [tag |-> "Err", value |-> FALSE]

\* lines 205-212
check_backend_health(o) ==
    IF o.kind = "resp" THEN [tag |-> "Ok", value |-> IsSuccess(o.status)]
    ELSE [tag |-> "Ok", value |-> FALSE]

(***************************************************************************)
(* wait_for_backend_ready (lib.rs 80-105).  script[k] is the outcome of    *)
(* the k-th health request; the trace is the sequence of sleeps and        *)
(* requests issued.                                                        *)
(***************************************************************************)
GetStep(attempt) == [op |-> "get", arg |-> <<attempt>>]

RECURSIVE WaitLoop(_, _, _, _)
\* the iterations attempt ..= max_retries of the for loop
WaitLoop(attempt, max_retries, delay_ms, script) ==
    IF attempt > max_retries THEN [res |-> "Timeout", trace |-> <<>>]
    ELSE LET o == script[attempt]
             step == <<SleepStep(delay_ms), GetStep(attempt)>>
         IN  IF o.kind = "resp" /\ IsSuccess(o.status)
             THEN [res |-> "Ok", trace |-> step]
             ELSE LET rest == WaitLoop(attempt + 1, max_retries, delay_ms, script)
                  IN  [res |-> rest.res, trace |-> step \o rest.trace]

\* wait_for_backend_ready with the loop written 1..max_retries
WaitExclusiveRange(max_retries, delay_ms, script) ==
    WaitLoop(1, max_retries - 1, delay_ms, script)

\* wait_for_backend_ready giving up without an error
WaitNeverFails(max_retries, delay_ms, script) ==
    [res |-> "Ok", trace |-> WaitLoop(1, max_retries, delay_ms, script).trace]

wait_for_backend_ready(max_retries, delay_ms, script) ==
    WaitLoop(1, max_retries, delay_ms, script)

\* the health endpoint as a start sees it: no success-class answer before
\* request k, one at request k (k = 0: never)
ScriptsOfLen(n) ==
    {[i \in 1 .. n |-> IF i = k THEN Resp(200) ELSE f] :
        k \in {0, 1, n}, f \in {Resp(503), TransportErr}}

(***************************************************************************)
(* Initial state: run() has managed PythonBackend { process: None }        *)
(* (lib.rs 218-220); nothing has been invoked yet.                         *)
(***************************************************************************)
InitSupervisor ==
    /\ process = None
    /\ lock = Free
    /\ pc = [s \in Starts |-> "idle"]
    /\ existing = [s \in Starts |-> None]
    /\ startRes = [s \in Starts |-> "none"]
    /\ reclaimRes = [s \in Starts |-> "none"]
    /\ probed = [s \in Starts |-> FALSE]
    /\ doneAtBegin = [s \in Starts |-> {}]
    /\ alive = [c \in Children |-> FALSE]
    /\ spawned = [c \in Children |-> FALSE]
    /\ killCalled = [c \in Children |-> FALSE]
    /\ killFailed = [c \in Children |-> FALSE]
    /\ waited = [c \in Children |-> FALSE]
    /\ hookPc = "idle"
    /\ hookProc = None
    /\ closes = 0

InitHealth ==
    /\ healthChecks = 0
    /\ healthRet = [tag |-> "none", value |-> FALSE]

NoQuery == NetstatOut(FALSE, <<>>)
NoOut == [res |-> "none", trace |-> <<>>]

InitPortIdle == portIn = NoQuery /\ portOut = NoOut
InitWaitIdle ==
    /\ waitIn = [max_retries |-> 0, delay_ms |-> 0, script |-> <<>>]
    /\ waitOut = NoOut
NoCwd == 0 - 1
InitResolveIdle == resolveIn = [depth |-> NoCwd, fs |-> NoFs] /\ resolveOut = NoPlan

Init ==
    /\ platform \in {"unix", "windows"}
    /\ InitSupervisor
    /\ InitHealth
    /\ InitPortIdle
    /\ InitWaitIdle
    /\ InitResolveIdle

LiveChildren == {c \in Children : alive[c]}

(***************************************************************************)
(* start_python_backend (lib.rs 114-203), one action per step between      *)
(* the points where another task can run.                                  *)
(*                                                                         *)
(* Mutex::lock returns Err only for a poisoned mutex; no holder of the     *)
(* lock can panic, so lock() is modelled as blocking until the lock is     *)
(* free.  Child::kill may return Err and then leaves the child as it is;   *)
(* Child::wait returns when the child has exited.  The resolved directory  *)
(* and interpreter only shape the spawned command, whose outcome is an     *)
(* input here.  The requests of wait_for_backend_ready touch nothing the   *)
(* other operations read or write, so the whole wait is one step taken     *)
(* from the position "ready".                                              *)
(***************************************************************************)
\* the reclamation with its error returned to the caller (a ? on line 120)
StartReclaimPropagates(s) ==
    /\ pc[s] = "idle"
    /\ \E q \in QueriesFor(platform, {Pid(c) : c \in LiveChildren} \cup {ExtPid}) :
         LET r == kill_process_on_port(platform, BackendPort, q)
             hit == {c \in LiveChildren : Pid(c) \in KilledPids(r.trace)}
         IN  /\ reclaimRes' = [reclaimRes EXCEPT ![s] = r.res]
             /\ \E dies \in SUBSET hit :
                  alive' = [c \in Children |-> alive[c] /\ c \notin dies]
             /\ IF r.res = "Err"
                THEN /\ startRes' = [startRes EXCEPT ![s] = "ReclaimError"]
                     /\ pc' = [pc EXCEPT ![s] = "done"]
                ELSE /\ startRes' = startRes
                     /\ pc' = [pc EXCEPT ![s] = "resolve"]
    /\ doneAtBegin' = [doneAtBegin EXCEPT ![s] = {t \in Starts : pc[t] = "done"}]
    /\ UNCHANGED <<platform, process, lock, existing, probed, spawned,
                   killCalled, killFailed, waited, hookPc, hookProc, closes>>
    /\ UNCHANGED <<healthVars, portVars, waitVars, resolveVars>>

\* lines 117-122: kill_process_on_port(8000); an Err is only logged
StartReclaim(s) ==
    /\ pc[s] = "idle"
    /\ \E q \in QueriesFor(platform, {Pid(c) : c \in LiveChildren} \cup {ExtPid}) :
         LET r == kill_process_on_port(platform, BackendPort, q)
             hit == {c \in LiveChildren : Pid(c) \in KilledPids(r.trace)}
         IN  /\ reclaimRes' = [reclaimRes EXCEPT ![s] = r.res]
             \* each terminate command may or may not end its target
             /\ \E dies \in SUBSET hit :
                  alive' = [c \in Children |-> alive[c] /\ c \notin dies]
    /\ doneAtBegin' = [doneAtBegin EXCEPT ![s] = {t \in Starts : pc[t] = "done"}]
    /\ pc' = [pc EXCEPT ![s] = "resolve"]
    /\ UNCHANGED <<platform, process, lock, existing, startRes,
                   probed, spawned, killCalled, killFailed, waited,
                   hookPc, hookProc, closes>>
    /\ UNCHANGED <<healthVars, portVars, waitVars, resolveVars>>

\* lines 124-163: resolve the directory and the interpreter, build the command
StartResolveWith(s, fs) ==
    /\ pc[s] = "resolve"
    /\ LET d == ResolveDir(fs)
       IN  IF d.err # "none"
           THEN /\ startRes' = [startRes EXCEPT ![s] = d.err]
                /\ pc' = [pc EXCEPT ![s] = "done"]
           ELSE /\ pc' = [pc EXCEPT ![s] = "lock_take"]
                /\ startRes' = startRes
    /\ UNCHANGED <<platform, process, lock, existing, reclaimRes, probed, doneAtBegin, alive, spawned, killCalled, killFailed,
                   waited, hookPc, hookProc, closes>>
    /\ UNCHANGED <<healthVars, portVars, waitVars, resolveVars>>

StartResolve(s) == \E fs \in FsStates : StartResolveWith(s, fs)

\* lines 167-170: python_backend.process.lock()
StartLockTake(s) ==
    /\ pc[s] = "lock_take"
    /\ lock = Free
    /\ lock' = s
    /\ pc' = [pc EXCEPT ![s] = "take"]
    /\ UNCHANGED <<platform, process, existing, startRes,
                   reclaimRes, probed, doneAtBegin, alive, spawned,
                   killCalled, killFailed, waited, hookPc, hookProc, closes>>
    /\ UNCHANGED <<healthVars, portVars, waitVars, resolveVars>>

\* the take with the previous handle dropped instead of killed and reaped
StartTakeDropsExisting(s) ==
    /\ pc[s] = "take"
    /\ lock = s
    /\ existing' = [existing EXCEPT ![s] = process]
    /\ process' = None
    /\ lock' = Free
    /\ pc' = [pc EXCEPT ![s] = "spawn"]
    /\ UNCHANGED <<platform, startRes, reclaimRes, probed, doneAtBegin,
                   alive, spawned, killCalled, killFailed, waited, hookPc,
                   hookProc, closes>>
    /\ UNCHANGED <<healthVars, portVars, waitVars, resolveVars>>

\* the take with the guard bound in the function's scope, not in a block
StartTakeKeepsGuard(s) ==
    /\ pc[s] = "take"
    /\ lock = s
    /\ existing' = [existing EXCEPT ![s] = process]
    /\ process' = None
    /\ pc' = [pc EXCEPT ![s] = IF process # None THEN "kill" ELSE "spawn"]
    /\ UNCHANGED <<platform, lock, startRes, reclaimRes, probed, doneAtBegin,
                   alive, spawned, killCalled, killFailed, waited, hookPc,
                   hookProc, closes>>
    /\ UNCHANGED <<healthVars, portVars, waitVars, resolveVars>>

\* lines 171-172: state_guard.take(); the guard is dropped at the block's end
StartTake(s) ==
    /\ pc[s] = "take"
    /\ lock = s
    /\ existing' = [existing EXCEPT ![s] = process]
    /\ process' = None
    /\ lock' = Free
    /\ pc' = [pc EXCEPT ![s] = IF process # None THEN "kill" ELSE "spawn"]
    /\ UNCHANGED <<platform, startRes, reclaimRes, probed, doneAtBegin, alive, spawned, killCalled, killFailed,
                   waited, hookPc, hookProc, closes>>
    /\ UNCHANGED <<healthVars, portVars, waitVars, resolveVars>>

\* lines 174-177: existing.kill(); an Err is only logged
StartKill(s) ==
    /\ pc[s] = "kill"
    /\ \E ok \in BOOLEAN :
         /\ killCalled' = [killCalled EXCEPT ![existing[s]] = TRUE]
         /\ killFailed' = [killFailed EXCEPT ![existing[s]] = ~ok]
         /\ alive' = [alive EXCEPT ![existing[s]] = IF ok THEN FALSE ELSE @]
    /\ pc' = [pc EXCEPT ![s] = "wait"]
    /\ UNCHANGED <<platform, process, lock, existing, startRes,
                   reclaimRes, probed, doneAtBegin, spawned, waited,
                   hookPc, hookProc, closes>>
    /\ UNCHANGED <<healthVars, portVars, waitVars, resolveVars>>

\* line 178: existing.wait() returns once the child has exited
StartWait(s) ==
    /\ pc[s] = "wait"
    /\ waited' = [waited EXCEPT ![existing[s]] = TRUE]
    /\ alive' = [alive EXCEPT ![existing[s]] = FALSE]
    /\ pc' = [pc EXCEPT ![s] = "spawn"]
    /\ UNCHANGED <<platform, process, lock, existing, startRes,
                   reclaimRes, probed, doneAtBegin, spawned,
                   killCalled, killFailed, hookPc, hookProc, closes>>
    /\ UNCHANGED <<healthVars, portVars, waitVars, resolveVars>>

\* the spawn followed at once by the readiness wait, the store left for later
StartSpawnProbesBeforeStore(s) ==
    /\ pc[s] = "spawn"
    /\ \E ok \in BOOLEAN :
         IF ok
         THEN /\ spawned' = [spawned EXCEPT ![s] = TRUE]
              /\ alive' = [alive EXCEPT ![s] = TRUE]
              /\ pc' = [pc EXCEPT ![s] = "ready"]
              /\ startRes' = startRes
         ELSE /\ startRes' = [startRes EXCEPT ![s] = "SpawnError"]
              /\ pc' = [pc EXCEPT ![s] = "done"]
              /\ UNCHANGED <<spawned, alive>>
    /\ UNCHANGED <<platform, process, lock, existing, reclaimRes, probed,
                   doneAtBegin, killCalled, killFailed, waited, hookPc,
                   hookProc, closes>>
    /\ UNCHANGED <<healthVars, portVars, waitVars, resolveVars>>

\* a failed spawn that puts the handle it took back into the slot
StartSpawnRestoresOnFailure(s) ==
    /\ pc[s] = "spawn"
    /\ \E ok \in BOOLEAN :
         IF ok
         THEN /\ spawned' = [spawned EXCEPT ![s] = TRUE]
              /\ alive' = [alive EXCEPT ![s] = TRUE]
              /\ pc' = [pc EXCEPT ![s] = "lock_store"]
              /\ UNCHANGED <<startRes, process>>
         ELSE /\ startRes' = [startRes EXCEPT ![s] = "SpawnError"]
              /\ pc' = [pc EXCEPT ![s] = "done"]
              /\ process' = existing[s]
              /\ UNCHANGED <<spawned, alive>>
    /\ UNCHANGED <<platform, lock, existing, reclaimRes, probed, doneAtBegin, killCalled,
                   killFailed, waited, hookPc, hookProc, closes>>
    /\ UNCHANGED <<healthVars, portVars, waitVars, resolveVars>>

\* lines 181-183, 199-201: command.spawn()
StartSpawn(s) ==
    /\ pc[s] = "spawn"
    /\ \E ok \in BOOLEAN :
         IF ok
         THEN /\ spawned' = [spawned EXCEPT ![s] = TRUE]
              /\ alive' = [alive EXCEPT ![s] = TRUE]
              /\ pc' = [pc EXCEPT ![s] = "lock_store"]
              /\ startRes' = startRes
         ELSE /\ startRes' = [startRes EXCEPT ![s] = "SpawnError"]
              /\ pc' = [pc EXCEPT ![s] = "done"]
              /\ UNCHANGED <<spawned, alive>>
    /\ UNCHANGED <<platform, process, lock, existing, reclaimRes, probed, doneAtBegin, killCalled,
                   killFailed, waited, hookPc, hookProc, closes>>
    /\ UNCHANGED <<healthVars, portVars, waitVars, resolveVars>>

\* lines 185-188: python_backend.process.lock()
StartLockStore(s) ==
    /\ pc[s] = "lock_store"
    /\ lock = Free
    /\ lock' = s
    /\ pc' = [pc EXCEPT ![s] = "store"]
    /\ UNCHANGED <<platform, process, existing, startRes,
                   reclaimRes, probed, doneAtBegin, alive, spawned,
                   killCalled, killFailed, waited, hookPc, hookProc, closes>>
    /\ UNCHANGED <<healthVars, portVars, waitVars, resolveVars>>

\* the store with the guard kept alive until the function returns
StartStoreKeepsGuard(s) ==
    /\ pc[s] = "store"
    /\ lock = s
    /\ process' = s
    /\ pc' = [pc EXCEPT ![s] = "ready"]
    /\ UNCHANGED <<platform, lock, existing, startRes, reclaimRes,
                   probed, doneAtBegin, alive, spawned, killCalled,
                   killFailed, waited, hookPc, hookProc, closes>>
    /\ UNCHANGED <<healthVars, portVars, waitVars, resolveVars>>

\* lines 189-190: *state_guard = Some(process); the guard is dropped
StartStore(s) ==
    /\ pc[s] = "store"
    /\ lock = s
    /\ process' = s
    /\ lock' = Free
    /\ pc' = [pc EXCEPT ![s] = "ready"]
    /\ UNCHANGED <<platform, existing, startRes, reclaimRes,
                   probed, doneAtBegin, alive, spawned, killCalled,
                   killFailed, waited, hookPc, hookProc, closes>>
    /\ UNCHANGED <<healthVars, portVars, waitVars, resolveVars>>

\* line 195: what wait_for_backend_ready(30, 500) does for each behaviour of
\* the health endpoint
ReadyOutcome ==
    [script \in ScriptsOfLen(StartMaxRetries) |->
        wait_for_backend_ready(StartMaxRetries, StartDelayMs, script)]

\* the readiness wait with the tracked handle cleared on Timeout
StartReadyClearsOnTimeout(s) ==
    /\ pc[s] = "ready"
    /\ \E script \in ScriptsOfLen(StartMaxRetries) :
         LET r == ReadyOutcome[script]
         IN  /\ probed' = [probed EXCEPT ![s] =
                              \E i \in 1 .. Len(r.trace) : r.trace[i].op = "get"]
             /\ startRes' = [startRes EXCEPT ![s] = r.res]
             /\ process' = IF r.res = "Timeout" THEN None ELSE process
    /\ pc' = [pc EXCEPT ![s] = "done"]
    /\ UNCHANGED <<platform, lock, existing, reclaimRes, doneAtBegin, alive,
                   spawned, killCalled, killFailed, waited, hookPc, hookProc,
                   closes>>
    /\ UNCHANGED <<healthVars, portVars, waitVars, resolveVars>>

\* the readiness wait with the spawn tried again after a Timeout
StartReadyRetriesSpawn(s, script) ==
    /\ pc[s] = "ready"
    /\ LET r == ReadyOutcome[script]
       IN  /\ probed' = [probed EXCEPT ![s] =
                            \E i \in 1 .. Len(r.trace) : r.trace[i].op = "get"]
           /\ IF r.res = "Timeout"
              THEN pc' = [pc EXCEPT ![s] = "spawn"] /\ startRes' = startRes
              ELSE /\ pc' = [pc EXCEPT ![s] = "done"]
                   /\ startRes' = [startRes EXCEPT ![s] = r.res]
    /\ UNCHANGED <<platform, process, lock, existing, reclaimRes, doneAtBegin,
                   alive, spawned, killCalled, killFailed, waited, hookPc,
                   hookProc, closes>>
    /\ UNCHANGED <<healthVars, portVars, waitVars, resolveVars>>

\* lines 195-197: wait_for_backend_ready(30, 500).await? and the return
StartReadyWith(s, script) ==
    /\ pc[s] = "ready"
    /\ LET r == ReadyOutcome[script]
       IN  /\ probed' = [probed EXCEPT ![s] =
                            \E i \in 1 .. Len(r.trace) : r.trace[i].op = "get"]
           /\ startRes' = [startRes EXCEPT ![s] = r.res]
    /\ pc' = [pc EXCEPT ![s] = "done"]
    /\ UNCHANGED <<platform, process, lock, existing, reclaimRes, doneAtBegin,
                   alive, spawned, killCalled, killFailed, waited, hookPc,
                   hookProc, closes>>
    /\ UNCHANGED <<healthVars, portVars, waitVars, resolveVars>>

StartReady(s) ==
    \E script \in ScriptsOfLen(StartMaxRetries) : StartReadyWith(s, script)

(***************************************************************************)
(* The CloseRequested handler (lib.rs 240-255).  It runs on the event      *)
(* loop, one event at a time; the guard lives until the end of the         *)
(* if-let block, so the lock is held over kill and wait.                   *)
(***************************************************************************)
\* line 241: a CloseRequested event is delivered
HookClose ==
    /\ hookPc = "idle"
    /\ closes < MaxCloses
    /\ closes' = closes + 1
    /\ hookPc' = "lock"
    /\ UNCHANGED <<platform, process, lock, pc, existing, startRes, reclaimRes, probed, doneAtBegin, alive,
                   spawned, killCalled, killFailed, waited, hookProc>>
    /\ UNCHANGED <<healthVars, portVars, waitVars, resolveVars>>

\* line 244: backend_state.process.lock()
HookLock ==
    /\ hookPc = "lock"
    /\ lock = Free
    /\ lock' = Hook
    /\ hookPc' = "take"
    /\ UNCHANGED <<platform, process, pc, existing, startRes,
                   reclaimRes, probed, doneAtBegin, alive, spawned,
                   killCalled, killFailed, waited, hookProc, closes>>
    /\ UNCHANGED <<healthVars, portVars, waitVars, resolveVars>>

\* the take followed by the kill whatever was taken (an unwrap of the Option)
HookTakeAlwaysKills ==
    /\ hookPc = "take"
    /\ lock = Hook
    /\ hookProc' = process
    /\ process' = None
    /\ hookPc' = "kill"
    /\ UNCHANGED <<platform, lock, pc, existing, startRes,
                   reclaimRes, probed, doneAtBegin, alive, spawned,
                   killCalled, killFailed, waited, closes>>
    /\ UNCHANGED <<healthVars, portVars, waitVars, resolveVars>>

\* line 245: guard.take()
HookTake ==
    /\ hookPc = "take"
    /\ lock = Hook
    /\ hookProc' = process
    /\ process' = None
    /\ hookPc' = IF process # None THEN "kill" ELSE "unlock"
    /\ UNCHANGED <<platform, lock, pc, existing, startRes,
                   reclaimRes, probed, doneAtBegin, alive, spawned,
                   killCalled, killFailed, waited, closes>>
    /\ UNCHANGED <<healthVars, portVars, waitVars, resolveVars>>

\* the handler with the wait placed in the else branch of the kill
HookKillSkipsWaitOnError ==
    /\ hookPc = "kill"
    /\ \E ok \in BOOLEAN :
         /\ killCalled' = [killCalled EXCEPT ![hookProc] = TRUE]
         /\ killFailed' = [killFailed EXCEPT ![hookProc] = ~ok]
         /\ alive' = [alive EXCEPT ![hookProc] = IF ok THEN FALSE ELSE @]
         /\ hookPc' = IF ok THEN "wait" ELSE "unlock"
    /\ UNCHANGED <<platform, process, lock, pc, existing, startRes,
                   reclaimRes, probed, doneAtBegin, spawned, waited, hookProc,
                   closes>>
    /\ UNCHANGED <<healthVars, portVars, waitVars, resolveVars>>

\* lines 246-250: process.kill(); an Err is only logged
HookKill ==
    /\ hookPc = "kill"
    /\ \E ok \in BOOLEAN :
         /\ killCalled' = [killCalled EXCEPT ![hookProc] = TRUE]
         /\ killFailed' = [killFailed EXCEPT ![hookProc] = ~ok]
         /\ alive' = [alive EXCEPT ![hookProc] = IF ok THEN FALSE ELSE @]
    /\ hookPc' = "wait"
    /\ UNCHANGED <<platform, process, lock, pc, existing, startRes, reclaimRes, probed, doneAtBegin, spawned,
                   waited, hookProc, closes>>
    /\ UNCHANGED <<healthVars, portVars, waitVars, resolveVars>>

\* line 251: process.wait()
HookWait ==
    /\ hookPc = "wait"
    /\ waited' = [waited EXCEPT ![hookProc] = TRUE]
    /\ alive' = [alive EXCEPT ![hookProc] = FALSE]
    /\ hookPc' = "unlock"
    /\ UNCHANGED <<platform, process, lock, pc, existing, startRes, reclaimRes, probed, doneAtBegin, spawned,
                   killCalled, killFailed, hookProc, closes>>
    /\ UNCHANGED <<healthVars, portVars, waitVars, resolveVars>>

\* line 253: the guard is dropped and the handler returns
HookUnlock ==
    /\ hookPc = "unlock"
    /\ lock = Hook
    /\ lock' = Free
    /\ hookPc' = "idle"
    /\ UNCHANGED <<platform, process, pc, existing, startRes,
                   reclaimRes, probed, doneAtBegin, alive, spawned,
                   killCalled, killFailed, waited, hookProc, closes>>
    /\ UNCHANGED <<healthVars, portVars, waitVars, resolveVars>>

(***************************************************************************)
(* The check_backend_health command (lib.rs 205-212).                      *)
(***************************************************************************)
\* the health command forgetting the tracked handle of an unhealthy backend
CheckHealthForgetsUnhealthy(o) ==
    /\ healthChecks < MaxHealthChecks
    /\ healthRet' = check_backend_health(o)
    /\ healthChecks' = healthChecks + 1
    /\ process' = IF healthRet'.value THEN process ELSE None
    /\ UNCHANGED <<platform, lock, pc, existing, startRes, reclaimRes, probed,
                   doneAtBegin, alive, spawned, killCalled, killFailed, waited,
                   hookPc, hookProc, closes>>
    /\ UNCHANGED <<portVars, waitVars, resolveVars>>

CheckBackendHealthWith(o) ==
    /\ healthChecks < MaxHealthChecks
    /\ healthRet' = check_backend_health(o)
    /\ healthChecks' = healthChecks + 1
    /\ UNCHANGED <<platform, supervisorVars, portVars, waitVars, resolveVars>>

CheckBackendHealth == \E o \in Outcomes : CheckBackendHealthWith(o)

Next ==
    \/ \E s \in Starts : StartReclaim(s)
    \/ \E s \in Starts : StartResolve(s)
    \/ \E s \in Starts : StartLockTake(s)
    \/ \E s \in Starts : StartTake(s)
    \/ \E s \in Starts : StartKill(s)
    \/ \E s \in Starts : StartWait(s)
    \/ \E s \in Starts : StartSpawn(s)
    \/ \E s \in Starts : StartLockStore(s)
    \/ \E s \in Starts : StartStore(s)
    \/ \E s \in Starts : StartReady(s)
    \/ HookClose
    \/ HookLock
    \/ HookTake
    \/ HookKill
    \/ HookWait
    \/ HookUnlock
    \/ CheckBackendHealth

Spec == Init /\ [][Next]_vars

(***************************************************************************)
(* Fair scheduling.  An invocation that has begun keeps running: every     *)
(* step after the port reclaim of a start, and every step of the close     *)
(* handler after the event, is taken once it stays possible (kill, wait,   *)
(* spawn and the health requests return; a thread blocked on the mutex     *)
(* gets it once it stays free).  Whether a command is invoked, the window  *)
(* is closed is up to the user: no fairness.  check_backend_health shares  *)
(* no state with the starts and the handler and is left out of these runs. *)
(***************************************************************************)
NextSupervisor ==
    \/ \E s \in Starts : StartReclaim(s)
    \/ \E s \in Starts : StartResolve(s)
    \/ \E s \in Starts : StartLockTake(s)
    \/ \E s \in Starts : StartTake(s)
    \/ \E s \in Starts : StartKill(s)
    \/ \E s \in Starts : StartWait(s)
    \/ \E s \in Starts : StartSpawn(s)
    \/ \E s \in Starts : StartLockStore(s)
    \/ \E s \in Starts : StartStore(s)
    \/ \E s \in Starts : StartReady(s)
    \/ HookClose
    \/ HookLock
    \/ HookTake
    \/ HookKill
    \/ HookWait
    \/ HookUnlock

StartFair(s) ==
    /\ WF_vars(StartResolve(s))
    /\ WF_vars(StartLockTake(s))
    /\ WF_vars(StartTake(s))
    /\ WF_vars(StartKill(s))
    /\ WF_vars(StartWait(s))
    /\ WF_vars(StartSpawn(s))
    /\ WF_vars(StartLockStore(s))
    /\ WF_vars(StartStore(s))
    /\ WF_vars(StartReady(s))

HookFair ==
    /\ WF_vars(HookLock)
    /\ WF_vars(HookTake)
    /\ WF_vars(HookKill)
    /\ WF_vars(HookWait)
    /\ WF_vars(HookUnlock)

SpecFair ==
    Init /\ [][NextSupervisor]_vars /\ HookFair /\ \A s \in Starts : StartFair(s)

(***************************************************************************)
(* Shutdown.  The runs in which no command is invoked any more once the    *)
(* window has been asked to close: the starts that run beside the close    *)
(* handler are the ones that were in flight when the event came.           *)
(***************************************************************************)
StartReclaimBeforeClose(s) == closes = 0 /\ StartReclaim(s)

NextShutdown ==
    \/ \E s \in Starts : StartReclaimBeforeClose(s)
    \/ \E s \in Starts : StartResolve(s)
    \/ \E s \in Starts : StartLockTake(s)
    \/ \E s \in Starts : StartTake(s)
    \/ \E s \in Starts : StartKill(s)
    \/ \E s \in Starts : StartWait(s)
    \/ \E s \in Starts : StartSpawn(s)
    \/ \E s \in Starts : StartLockStore(s)
    \/ \E s \in Starts : StartStore(s)
    \/ \E s \in Starts : StartReady(s)
    \/ HookClose
    \/ HookLock
    \/ HookTake
    \/ HookKill
    \/ HookWait
    \/ HookUnlock

SpecShutdown == Init /\ [][NextShutdown]_vars

(***************************************************************************)
(* kill_process_on_port run alone on every introspection outcome of        *)
(* bounded length.                                                         *)
(***************************************************************************)
PidsTried == {Pid(c) : c \in 0 .. MaxFound}
LinesTried == [port : BOOLEAN, listening : BOOLEAN, pid : PidsTried]

\* which terminate commands fail: none, or the one for a given pid
FailsTried == {{}} \cup {{pid} : pid \in PidsTried}

PortOutputs(os) ==
    {SpawnErr} \cup
    IF os = "unix"
    THEN {LsofFound(pids) : pids \in {q \in SeqsUpTo(PidsTried, MaxFound) : NoDup(q)}}
    ELSE {NetstatOut(ok, lines) :
            ok \in BOOLEAN, lines \in SeqsUpTo(LinesTried, MaxFound)}

PortQueries(os) ==
    {[q EXCEPT !.fails = fails] : q \in PortOutputs(os), fails \in FailsTried}

InitPort ==
    /\ platform \in {"unix", "windows"}
    /\ portIn \in PortQueries(platform)
    /\ portOut = NoOut
    /\ InitSupervisor
    /\ InitHealth
    /\ InitWaitIdle
    /\ InitResolveIdle

PortRun ==
    /\ portOut.res = "none"
    /\ portOut' = kill_process_on_port(platform, BackendPort, portIn)
    /\ UNCHANGED <<platform, supervisorVars, healthVars, portIn, waitVars,
                   resolveVars>>

SpecPort == InitPort /\ [][PortRun]_vars

(***************************************************************************)
(* The resolution of lines 124-150 run alone, for every current directory  *)
(* of bounded depth and every combination of existing candidate paths.     *)
(* current_dir() fails for depth NoCwd; the root (depth 0) has no parent.  *)
(***************************************************************************)
FsAt(depth) ==
    {fs \in FsStates : (fs.cwdOk <=> depth >= 0) /\ (fs.hasParent <=> depth >= 1)}

InitResolve ==
    /\ platform = "unix"
    /\ \E depth \in NoCwd .. MaxCwdDepth :
         \E fs \in FsAt(depth) : resolveIn = [depth |-> depth, fs |-> fs]
    /\ resolveOut = NoPlan
    /\ InitSupervisor
    /\ InitHealth
    /\ InitPortIdle
    /\ InitWaitIdle

ResolveRun ==
    /\ resolveOut = NoPlan
    /\ resolveOut' = Resolve(resolveIn.fs)
    /\ UNCHANGED <<platform, supervisorVars, healthVars, portVars, waitVars,
                   resolveIn>>

SpecResolve == InitResolve /\ [][ResolveRun]_vars

(***************************************************************************)
(* wait_for_backend_ready run alone on every max_retries and every         *)
(* sequence of request outcomes of bounded length.                         *)
(***************************************************************************)
DelaysTried == {10, StartDelayMs}

InitWait ==
    /\ platform = "unix"
    /\ waitIn \in [max_retries : 0 .. MaxRetriesTried,
                   delay_ms : DelaysTried,
                   script : [1 .. MaxRetriesTried -> Outcomes]]
    /\ waitOut = NoOut
    /\ InitSupervisor
    /\ InitHealth
    /\ InitPortIdle
    /\ InitResolveIdle

WaitRun ==
    /\ waitOut.res = "none"
    /\ waitOut' = wait_for_backend_ready(waitIn.max_retries, waitIn.delay_ms,
                                         waitIn.script)
    /\ UNCHANGED <<platform, supervisorVars, healthVars, portVars, waitIn,
                   resolveVars>>

SpecWait == InitWait /\ [][WaitRun]_vars

(***************************************************************************)
(* Properties.                                                             *)
(***************************************************************************)
\* a child handle is in somebody's hands: in the tracked slot, in the local
\* of the start that spawned it and has not stored it yet, or in the local
\* of the start or handler that took it and has not reaped it yet
Held(c) ==
    \/ process = c
    \/ pc[c] \in {"lock_store", "store"}
    \/ \E s \in Starts : existing[s] = c /\ pc[s] \in {"kill", "wait"}
    \/ hookProc = c /\ hookPc \in {"kill", "wait"}

\* C1: for every interleaving of concurrent starts no spawned child is left
\* alive while untracked, and a start that stores its new handle overwrites
\* an empty slot.
C1_NoUntrackedChild ==
    /\ [](\A c \in Children : alive[c] => Held(c))
    /\ [][\A s \in Starts :
            pc[s] = "store" /\ pc'[s] = "ready" => process = None]_vars

\* the invocations that ran do not overlap, and the handler never ran
NoOverlap ==
    \A a, b \in Starts :
        a # b /\ pc[a] # "idle" /\ pc[b] # "idle"
            => a \in doneAtBegin[b] \/ b \in doneAtBegin[a]
\* s2 began after s1 returned, with no invocation in between
Succeeds(s1, s2) == s1 # s2 /\ doneAtBegin[s2] = doneAtBegin[s1] \cup {s1}
IsLast(s) == \A t \in Starts : s \notin doneAtBegin[t]

\* C2: two starts in succession whose spawns both succeed: the first
\* child was killed and reaped before the second spawn, and at the end the
\* second child is the one tracked and the only one alive.
C2_SecondStartReplacesFirst ==
    \A s1, s2 \in Starts :
        closes = 0 /\ NoOverlap /\ Succeeds(s1, s2)
        /\ spawned[s1] /\ spawned[s2]
        => /\ killCalled[s1] /\ waited[s1] /\ ~alive[s1]
           /\ existing[s2] = s1
           /\ pc[s2] = "done" /\ IsLast(s2)
                => process = s2 /\ LiveChildren = {s2}

C2_Witness ==
    \E s1, s2 \in Starts :
        /\ closes = 0 /\ NoOverlap /\ Succeeds(s1, s2)
        /\ spawned[s1] /\ spawned[s2] /\ pc[s2] = "done"
        /\ process = s2 /\ waited[s1]

\* C3: when the CloseRequested handler completes after taking a process,
\* the slot is None and the process was killed and reaped, the wait being
\* performed also when the kill returned an error.
C3_HookKillsAndReaps ==
    /\ hookPc \in {"kill", "wait", "unlock"} => process = None /\ lock = Hook
    /\ hookPc = "unlock" /\ hookProc # None
         => killCalled[hookProc] /\ waited[hookProc] /\ ~alive[hookProc]

C3_Witness ==
    hookPc = "unlock" /\ hookProc # None /\ killFailed[hookProc] /\ waited[hookProc]

\* nobody but s has run since s began
Undisturbed(s) ==
    /\ closes = 0
    /\ \A t \in Starts \ {s} : pc[t] = "idle" \/ t \in doneAtBegin[s]

\* C4: a start whose readiness wait times out returns the error and leaves
\* the slot and the child as they were: the child it spawned stays tracked
\* and is not killed by that start.
C4_TimeoutKeepsChild ==
    /\ [][\A s \in Starts :
            pc[s] = "ready" /\ pc'[s] = "done" /\ startRes'[s] = "Timeout"
            => /\ process' = process /\ lock' = lock /\ alive' = alive
               /\ killCalled' = killCalled /\ waited' = waited]_vars
    /\ [](\A s \in Starts :
            startRes[s] = "Timeout"
            => /\ pc[s] = "done" /\ spawned[s] /\ existing[s] # s
               /\ Undisturbed(s) => process = s /\ alive[s] /\ ~killCalled[s])

C4_Witness ==
    \E s \in Starts :
        startRes[s] = "Timeout" /\ Undisturbed(s) /\ process = s /\ alive[s]

\* request number of the first success-class answer among the first max
\* requests, 0 if there is none
FirstSuccess(max, script) ==
    LET hits == {i \in 1 .. max :
                   script[i].kind = "resp" /\ script[i].status \in 200 .. 299}
    IN  IF hits = {} THEN 0 ELSE CHOOSE i \in hits : \A j \in hits : i <= j

\* the trace is n rounds of one sleep of delay followed by one request
SleepThenGet(trace, n, delay) ==
    /\ Len(trace) = 2 * n
    /\ \A i \in 1 .. n :
         trace[2 * i - 1] = SleepStep(delay) /\ trace[2 * i] = GetStep(i)

\* C5: wait_for_backend_ready sleeps delay_ms before every request, returns
\* Ok at the first success-class answer k <= max_retries after k requests
\* and k sleeps, and otherwise Timeout after max_retries requests.
C5_ProbeSchedule ==
    waitOut.res # "none"
    => LET k == FirstSuccess(waitIn.max_retries, waitIn.script)
       IN  IF k > 0
           THEN /\ waitOut.res = "Ok"
                /\ SleepThenGet(waitOut.trace, k, waitIn.delay_ms)
           ELSE /\ waitOut.res = "Timeout"
                /\ SleepThenGet(waitOut.trace, waitIn.max_retries, waitIn.delay_ms)

C5_Witness ==
    /\ waitOut.res = "Ok"
    /\ Len(waitOut.trace) = 4
    /\ waitIn.script[1] = TransportErr
    /\ waitIn.max_retries = MaxRetriesTried

NeitherHasDir(fs) == fs.cwdOk /\ fs.hasParent /\ ~fs.dirCwd /\ ~fs.dirParent

\* C6: when python-backend exists neither under the current directory nor
\* under its parent, start returns the directory-not-found error before any
\* spawn: that invocation spawns no child and issues no health request.
C6_NoDirNoSpawn ==
    /\ [][\A s \in Starts : \A fs \in FsStates :
            NeitherHasDir(fs) /\ StartResolveWith(s, fs)
            => startRes'[s] = "DirectoryNotFound" /\ pc'[s] = "done"]_vars
    /\ [](\A s \in Starts :
            startRes[s] = "DirectoryNotFound"
            => pc[s] = "done" /\ ~spawned[s] /\ ~probed[s] /\ existing[s] = None)

C6_Witness ==
    \E s \in Starts :
        startRes[s] = "DirectoryNotFound" /\ ~spawned[s] /\ process # None

\* C7: check_backend_health never returns an error; it returns true exactly
\* for a success-class response and false for any other status and for a
\* transport failure, whatever is tracked.
C7_HealthNeverErrs ==
    /\ [][\A o \in Outcomes :
            CheckBackendHealthWith(o)
            => healthRet' = [tag |-> "Ok",
                             value |-> o.kind = "resp" /\ o.status \in 200 .. 299]]_vars
    /\ [](healthRet.tag \in {"none", "Ok"})

C7_Witness ==
    /\ healthChecks > 0
    /\ healthRet = [tag |-> "Ok", value |-> FALSE]
    /\ process = None
    /\ LiveChildren = {}

\* C8 as stated: the lock is held only for the take and store steps, in
\* start_python_backend and in the handler alike.
C8_LockOnlyForTakeAndStore ==
    /\ \A s \in Starts : lock = s => pc[s] \in {"take", "store"}
    /\ lock = Hook => hookPc \in {"take", "unlock"}

\* C8 amended: start_python_backend holds the lock exactly for its take and
\* its store, never while it kills, waits, spawns or probes; the handler
\* holds it from the take until it returns, over its kill and its wait.
C8_LockScopes ==
    /\ \A s \in Starts : lock = s <=> pc[s] \in {"take", "store"}
    /\ lock = Hook <=> hookPc \in {"take", "kill", "wait", "unlock"}

C8_Witness == lock = Hook /\ hookPc = "wait" /\ hookProc # None

StartResults ==
    {"none", "Ok", "Timeout", "SpawnError", "DirectoryNotFound", "NoParent",
     "CurrentDirError"}

\* C9: whatever kill_process_on_port and existing.kill() return, start goes
\* on to the resolution and to the wait and spawn, and never returns an
\* error for them.
C9_CleanupFailuresIgnored ==
    /\ [][\A s \in Starts :
            /\ pc[s] = "idle" /\ pc'[s] # "idle"
                 => pc'[s] = "resolve" /\ startRes'[s] = "none"
            /\ pc[s] = "kill" /\ pc'[s] # "kill"
                 => pc'[s] = "wait" /\ startRes'[s] = "none"
            /\ pc[s] = "wait" /\ pc'[s] # "wait"
                 => pc'[s] = "spawn" /\ startRes'[s] = "none"]_vars
    /\ [](\A s \in Starts : startRes[s] \in StartResults)

C9_Witness ==
    \E s \in Starts :
        /\ reclaimRes[s] = "Err"
        /\ existing[s] # None /\ killFailed[existing[s]]
        /\ startRes[s] = "Ok"

\* C10: kill_process_on_port sleeps if and only if it found a process on
\* the port: none found, it returns Ok without a sleep; some found, it
\* sleeps once, after the last terminate and before returning.
C10_GraceSleepIffFound ==
    portOut.res # "none"
    => LET found == FoundPids(platform, portIn)
           tr == portOut.trace
       IN  /\ Sleeps(tr) # {} <=> found # {}
           /\ found = {} /\ portIn.spawn = "ok" => portOut.res = "Ok" /\ tr = <<>>
           /\ found # {}
                => /\ portOut.res = "Ok"
                   /\ Sleeps(tr) = {Len(tr)}
                   /\ tr[Len(tr)] = SleepStep(GraceMs)
                   /\ KilledPids(tr) = found

C10_Witness ==
    /\ portOut.res = "Ok"
    /\ Cardinality(FoundPids(platform, portIn)) = 2
    /\ Sleeps(portOut.trace) = {3}

\* C11: within a start the port reclamation precedes the spawn, the handle
\* taken is killed and reaped before the spawn, the new handle is stored
\* before the first health request, and Ok is returned only after a
\* success-class answer.
C11_StartStepOrder ==
    /\ [](\A s \in Starts :
            /\ pc[s] \notin {"idle", "resolve"} => reclaimRes[s] # "none"
            /\ spawned[s]
                 => /\ reclaimRes[s] # "none"
                    /\ existing[s] # None
                         => killCalled[existing[s]] /\ waited[existing[s]]
            /\ probed[s] => spawned[s] /\ pc[s] = "done"
            /\ startRes[s] = "Ok" => probed[s])
    /\ [][\A s \in Starts :
            /\ pc[s] # "spawn" /\ pc'[s] = "spawn"
                 => pc[s] \in {"take", "wait"}
                    /\ (pc[s] = "take" => existing'[s] = None)
            /\ pc[s] # "ready" /\ pc'[s] = "ready"
                 => pc[s] = "store" /\ process' = s /\ ~probed[s]
            /\ probed'[s] /\ ~probed[s] => pc[s] = "ready"
            /\ pc[s] = "ready" /\ startRes'[s] = "Ok"
                 => \A script \in ScriptsOfLen(StartMaxRetries) :
                      StartReadyWith(s, script)
                      => FirstSuccess(StartMaxRetries, script) > 0]_vars

C11_Witness ==
    \E s \in Starts :
        /\ startRes[s] = "Ok" /\ probed[s]
        /\ existing[s] # None /\ waited[existing[s]]
        /\ reclaimRes[s] = "Ok"

childVars == <<alive, spawned, killCalled, killFailed, waited>>

\* C12: the CloseRequested handler run with an empty slot issues no kill
\* and no wait and leaves the slot and every child as they were; every run
\* leaves the slot empty, so a second run in a row changes nothing.
C12_HookNoopWhenEmpty ==
    /\ [](hookPc \in {"kill", "wait"} => hookProc # None)
    /\ [](hookPc = "unlock" => process = None /\ lock = Hook)
    /\ [][hookPc = "take" /\ hookPc' # "take" /\ process = None
            => /\ hookPc' = "unlock" /\ hookProc' = None /\ process' = None
               /\ UNCHANGED childVars]_vars
    /\ [][hookPc' # hookPc /\ hookPc \in {"idle", "lock", "unlock"}
            => UNCHANGED <<process, childVars>>]_vars
    /\ [][hookPc = "unlock" /\ hookPc' # "unlock"
            => hookPc' = "idle" /\ lock' = Free]_vars

C12_Witness ==
    /\ closes >= 2
    /\ hookPc = "unlock" /\ hookProc = None
    /\ \E c \in Children : spawned[c] /\ waited[c]
    /\ \A s \in Starts : pc[s] \in {"idle", "done"}

\* C13: first match wins.  The interpreter is the one of the virtual
\* environment under the current directory, else the one under the parent,
\* else python3; the directory is python-backend under the current
\* directory, else under the parent; the resolution fails exactly when
\* python-backend is in neither place.
C13_FirstMatchWins ==
    resolveOut # NoPlan
    => LET fs == resolveIn.fs
           out == resolveOut
       IN  /\ out.err # "none" <=> ~fs.dirCwd /\ ~fs.dirParent
           /\ out.err = "none"
                => /\ out.dir = IF fs.dirCwd THEN "cwd/python-backend"
                                ELSE "parent/python-backend"
                   /\ out.exe = IF fs.venvCwd THEN "cwd/.venv/bin/python"
                                ELSE IF fs.venvParent THEN "parent/.venv/bin/python"
                                ELSE "python3"
           /\ out.err # "none" => out.dir = "none" /\ out.exe = "none"
           /\ ResolveExe(fs) \in {"cwd/.venv/bin/python", "parent/.venv/bin/python",
                                  "python3"}

C13_Witness ==
    /\ resolveOut.err = "none"
    /\ resolveOut.dir = "parent/python-backend"
    /\ resolveOut.exe = "cwd/.venv/bin/python"
    /\ resolveIn.fs.venvParent

\* C14: under fair scheduling every run of the close handler completes,
\* whatever the starts running beside it do: whoever holds the lock of the
\* slot gives it back, and the handler, once it waits for the lock, gets it.
C14_HookCompletes ==
    /\ hookPc # "idle" ~> hookPc = "idle"
    /\ \A s \in Starts : lock = s ~> lock # s
    /\ lock = Hook ~> lock # Hook

C14_Witness ==
    /\ hookPc = "lock"
    /\ \E s \in Starts : lock = s /\ pc[s] = "store"
    /\ \E s \in Starts : pc[s] = "lock_take"

\* C15: once the close handler has run and every start that was in flight
\* has returned, no child spawned by the supervisor is alive.
C15_NoChildAfterClose ==
    (/\ closes >= 1
     /\ hookPc = "idle"
     /\ \A s \in Starts : pc[s] \in {"idle", "done"})
    => \A c \in Children : ~alive[c]

\* C16: a start whose spawn fails returns the spawn error at that step, with
\* no store and no health probe.  The handle it took before (if any) has
\* been killed and waited on and is not in the slot, and when nobody else
\* ran meanwhile the slot is empty: the supervisor is left with no backend.
C16_SpawnFailureLeavesNoBackend ==
    /\ [][\A s \in Starts :
            startRes'[s] = "SpawnError" /\ startRes[s] # "SpawnError"
            => /\ pc[s] = "spawn" /\ pc'[s] = "done"
               /\ UNCHANGED <<process, lock, probed, childVars>>]_vars
    /\ [](\A s \in Starts :
            startRes[s] = "SpawnError"
            => /\ pc[s] = "done" /\ ~spawned[s] /\ ~probed[s]
               /\ process # s
               /\ existing[s] # None
                    => /\ process # existing[s]
                       /\ killCalled[existing[s]] /\ waited[existing[s]]
                       /\ ~alive[existing[s]]
               /\ Undisturbed(s) => process = None)

C16_Witness ==
    \E s \in Starts :
        /\ startRes[s] = "SpawnError" /\ Undisturbed(s)
        /\ existing[s] # None /\ waited[existing[s]] /\ process = None

\* C17: kill_process_on_port sends a forceful terminate to every process id
\* it found on the port, whichever of the terminate commands fail, and it
\* returns Ok whenever the introspection command could be run.
C17_EveryFoundPidTerminated ==
    portOut.res # "none"
    => LET tr == portOut.trace
       IN  /\ portOut.res = "Ok" <=> portIn.spawn = "ok"
           /\ KilledPids(tr) = FoundPids(platform, portIn)
           /\ \A i \in Kills(tr) :
                tr[i].op = IF platform = "unix" THEN "kill -9"
                           ELSE "taskkill /F /PID"
           /\ portOut = kill_process_on_port(platform, BackendPort,
                                             [portIn EXCEPT !.fails = {}])

C17_Witness ==
    /\ portOut.res = "Ok"
    /\ Cardinality(FoundPids(platform, portIn)) = 2
    /\ \E i \in Kills(portOut.trace) :
         /\ portOut.trace[i].arg[1] \in portIn.fails
         /\ i + 1 \in Kills(portOut.trace)

\* the stages of start_python_backend in program order
StageOrder ==
    <<"idle", "resolve", "lock_take", "take", "kill", "wait", "spawn",
      "lock_store", "store", "ready", "done">>
Rank(p) == CHOOSE i \in 1 .. Len(StageOrder) : StageOrder[i] = p
Gets(trace) == {i \in 1 .. Len(trace) : trace[i].op = "get"}

\* C18: under fair scheduling every start that has begun returns.  It only
\* moves forward through its stages (nothing is tried twice), a stage that
\* fails ends the invocation at once, and its readiness wait issues at most
\* 30 health requests.
C18_StartReturns ==
    /\ \A s \in Starts : pc[s] # "idle" ~> pc[s] = "done"
    /\ [][\A s \in Starts :
            /\ pc'[s] # pc[s] => Rank(pc'[s]) > Rank(pc[s])
            /\ pc[s] = "done" => startRes'[s] = startRes[s]
            /\ startRes'[s] # startRes[s]
                 => startRes[s] = "none" /\ pc'[s] = "done"
            /\ pc[s] = "ready" /\ pc'[s] # "ready"
                 => \A script \in ScriptsOfLen(StartMaxRetries) :
                      StartReadyWith(s, script)
                      => Cardinality(Gets(ReadyOutcome[script].trace))
                           <= StartMaxRetries]_vars
    /\ [](\A s \in Starts : pc[s] = "done" <=> startRes[s] # "none")

C18_Witness ==
    /\ \E s \in Starts : pc[s] = "done" /\ startRes[s] = "Timeout"
    /\ \E s \in Starts : pc[s] = "done" /\ startRes[s] = "SpawnError"
    /\ closes >= 1

\* C19: the tracked slot changes only at the take of a start (to None), at
\* the store of a start (to the child it spawned) and at the take of the
\* close handler (to None).  The health command, the port reclaim, the
\* readiness wait and a start failing at the directory resolution leave it
\* as it is.
C19_SlotFrame ==
    /\ [][process' # process
            => \/ \E s \in Starts :
                    pc[s] = "take" /\ pc'[s] \in {"kill", "spawn"} /\ process' = None
               \/ \E s \in Starts :
                    pc[s] = "store" /\ pc'[s] = "ready" /\ spawned[s] /\ process' = s
               \/ hookPc = "take" /\ hookPc' \in {"kill", "unlock"} /\ process' = None]_vars
    /\ [][healthChecks' # healthChecks => process' = process]_vars
    /\ [][\A s \in Starts :
            pc'[s] # pc[s] /\ pc[s] \in {"idle", "resolve", "ready"}
            => process' = process]_vars

C19_Witness ==
    /\ process # None
    /\ healthChecks > 0 /\ healthRet = [tag |-> "Ok", value |-> FALSE]
    /\ \E s \in Starts : startRes[s] = "DirectoryNotFound"
    /\ \E s \in Starts : startRes[s] = "Timeout" /\ reclaimRes[s] = "Ok"

\* C20: a start returns success only after its spawn succeeded and one of
\* its health requests got a success-class answer; when no other start and
\* no close ran beside it, the slot then holds the child it spawned.
C20_SuccessMeansTracked ==
    /\ [](\A s \in Starts :
            startRes[s] = "Ok"
            => /\ spawned[s] /\ probed[s]
               /\ Undisturbed(s) => process = s /\ alive[s] /\ ~killCalled[s])
    /\ [][\A s \in Starts :
            /\ pc[s] = "spawn" /\ pc'[s] # "spawn" /\ ~spawned'[s]
                 => pc'[s] = "done" /\ startRes'[s] = "SpawnError"
            /\ startRes'[s] = "Ok" /\ startRes[s] # "Ok"
                 => /\ pc[s] = "ready" /\ spawned[s]
                    /\ \A script \in ScriptsOfLen(StartMaxRetries) :
                         StartReadyWith(s, script)
                         => LET n == FirstSuccess(StartMaxRetries, script)
                            IN  /\ n > 0
                                /\ IsSuccess(script[n].status)
                                /\ GetStep(n) \in Range(ReadyOutcome[script].trace)]_vars

C20_Witness ==
    \E s \in Starts :
        /\ startRes[s] = "Ok" /\ Undisturbed(s) /\ process = s
        /\ existing[s] = None /\ reclaimRes[s] = "Err"

====
